---- MODULE Spec2Model ----
(***************************************************************************)
(* Model of the relational-to-graph ETL (src/app/etl.py) and of the        *)
(* recommendation service (src/app/main.py).                               *)
(*                                                                         *)
(* The graph store is a property graph: nodes and relationships carry an   *)
(* element id of their own, so that duplicates are representable and the   *)
(* absence of duplicates is something the Cypher MERGE has to establish.   *)
(* The relational source is a record of six tables, each a sequence of     *)
(* rows in the order SELECT * returns them.                                *)
(***************************************************************************)
EXTENDS Integers, Sequences, FiniteSets, TLC

\* ------------------------------------------------------------------ bounds

\* Longest table of the relational source.
MaxRows == 2
\* Largest max_retries a readiness gate is called with.
MaxRetries == 3
\* Number of successive etl() runs against the same graph.
MaxRuns == 2
\* Longest schema file, in characters.
MaxFileLen == 3

SeqsUpTo(S, n) == UNION {[1..k -> S] : k \in 0..n}

\* ------------------------------------------------------- source value sets

CatIds == {1, 2}
ProdIds == {1, 2}
CustIds == {1, 2}
OrderIds == {1, 2}
CatNames == {"Books", "Toys"}
\* products.price is a NUMERIC column: pandas hands it over as decimal text.
Prices == {"29.99", "5.00"}
\* customers.join_date: a date, or NULL (None in the dataframe).
JoinDates == {"date(2024,1,5)", "None"}
\* orders.ts / events.ts: a pandas Timestamp, or NaT for a NULL.
\* order_items.quantity
Quantities == {1, 2}
Timestamps == {"Timestamp(1)", "Timestamp(2)", "NaT"}
\* events.event_type as stored in the source.
EventTypes == {"view", "VIEW", "purchase"}
\* The event types the loader is written for (comment at etl.py:207).
AllowedRelTypes == {"VIEW", "CLICK", "ADD_TO_CART"}

Tables == <<"categories", "products", "customers", "orders", "order_items", "events">>

CategoryRows == [id : CatIds, name : CatNames]
ProductRows == [id : ProdIds, name : {"Go Guide"}, price : Prices, category_id : CatIds]
CustomerRows == [id : CustIds, name : {"Ann"}, join_date : JoinDates]
OrderRows == [id : OrderIds, customer_id : CustIds, ts : Timestamps]
OrderItemRows == [order_id : OrderIds, product_id : ProdIds, quantity : Quantities]
EventRows == [customer_id : CustIds, product_id : ProdIds, event_type : EventTypes, ts : Timestamps]

RowsOf == [categories |-> CategoryRows, products |-> ProductRows, customers |-> CustomerRows,
           orders |-> OrderRows, order_items |-> OrderItemRows, events |-> EventRows]

\* A source in which every reference resolves and every value converts.
Baseline ==
    [categories |-> <<[id |-> 1, name |-> "Books"]>>,
     products |-> <<[id |-> 1, name |-> "Go Guide", price |-> "29.99", category_id |-> 1]>>,
     customers |-> <<[id |-> 1, name |-> "Ann", join_date |-> "date(2024,1,5)"]>>,
     orders |-> <<[id |-> 1, customer_id |-> 1, ts |-> "Timestamp(1)"]>>,
     order_items |-> <<[order_id |-> 1, product_id |-> 1, quantity |-> 1]>>,
     events |-> <<[customer_id |-> 1, product_id |-> 1, event_type |-> "view", ts |-> "Timestamp(1)"]>>]

\* The rows of table t that differ from the Baseline row in at most one
\* column: another id, a dangling reference, a NULL, another value.
NearRows(t) ==
    {r \in RowsOf[t] : Cardinality({f \in DOMAIN r : r[f] # Baseline[t][1][f]}) <= 1}

\* The sources explored: Baseline with one table replaced by any table of at
\* most MaxRows such rows (ids may repeat, references may dangle, values may
\* be NULL).
Snapshots ==
    UNION {{[Baseline EXCEPT ![t] = rows] : rows \in SeqsUpTo(NearRows(t), MaxRows)} :
           t \in {Tables[k] : k \in 1..6}}

\* ------------------------------------------------------------ schema file

FileChars == {"a", "b", ";", " "}
NoFile == [exists |-> FALSE, content |-> <<>>]
SchemaFiles == {NoFile} \cup {[exists |-> TRUE, content |-> c] : c \in SeqsUpTo(FileChars, MaxFileLen)}

\* str.split(';'): the pieces between the separators, empty pieces included.
RECURSIVE Split(_)
Split(s) ==
    IF \A k \in 1..Len(s) : s[k] # ";" THEN <<s>>
    ELSE LET k == CHOOSE j \in 1..Len(s) : s[j] = ";" /\ \A h \in 1..(j - 1) : s[h] # ";"
         IN <<SubSeq(s, 1, k - 1)>> \o Split(SubSeq(s, k + 1, Len(s)))

\* str.strip(): leading and trailing blanks removed.
RECURSIVE Strip(_)
Strip(s) ==
    IF s = <<>> THEN s
    ELSE IF s[1] = " " THEN Strip(Tail(s))
    ELSE IF s[Len(s)] = " " THEN Strip(SubSeq(s, 1, Len(s) - 1))
    ELSE s

\* A bug run_cypher_file does not have: blank pieces are kept.
Statements_KeepBlank(content) ==
    LET parts == Split(content)
    IN [k \in 1..Len(parts) |-> Strip(parts[k])]

\* [s.strip() for s in content.split(';') if s.strip()]
Statements(content) ==
    LET parts == Split(content)
        keep == SelectSeq(parts, LAMBDA p : Strip(p) # <<>>)
    IN [k \in 1..Len(keep) |-> Strip(keep[k])]

\* ------------------------------------------------------------ conversions

\* float(row['price']) (etl.py:157): the decimal text as a double.
Float == [p \in Prices |-> IF p = "29.99" THEN "29.99e0" ELSE "5.0e0"]

\* str(row['join_date']) (etl.py:170).
Str == [d \in JoinDates |-> IF d = "None" THEN "None" ELSE "2024-01-05"]

\* Cypher date($join_date) (etl.py:166): defined on ISO calendar dates only.
CypherDate == [s \in {"2024-01-05"} |-> "Date{2024-01-05}"]

\* row['ts'].isoformat() (etl.py:177, 210); NaT.isoformat() is the text 'NaT'.
IsoFormat ==
    [t \in Timestamps |->
        CASE t = "Timestamp(1)" -> "2024-01-01T10:00:00"
          [] t = "Timestamp(2)" -> "2024-01-02T10:00:00"
          [] t = "NaT" -> "NaT"]

\* Cypher datetime($ts) (etl.py:180, 216): defined on ISO-8601 text only.
CypherDatetime ==
    [s \in {"2024-01-01T10:00:00", "2024-01-02T10:00:00"} |->
        IF s = "2024-01-01T10:00:00" THEN "DateTime{2024-01-01T10:00Z}"
        ELSE "DateTime{2024-01-02T10:00Z}"]

\* row['event_type'].upper() (etl.py:207).
Upper == [e \in EventTypes |-> IF e = "purchase" THEN "PURCHASE" ELSE "VIEW"]

\* ------------------------------------------------------------ graph store

EmptyGraph == [nodes |-> {}, rels |-> {}, next |-> 0]

\* MATCH (n:label {id: id})
Match(g, label, id) == {n \in g.nodes : n.label = label /\ n.id = id}

\* MERGE (n:label {id: id}) SET n.k = v ...: every node the pattern matches
\* gets the properties; when none matches, one node is created.
MergeNode(g, label, id, props) ==
    LET m == Match(g, label, id)
    IN IF m = {}
       THEN [g EXCEPT !.nodes = @ \cup {[nid |-> g.next, label |-> label, id |-> id, props |-> props]},
                      !.next = @ + 1]
       ELSE [g EXCEPT !.nodes = {IF n \in m THEN [n EXCEPT !.props = props @@ n.props] ELSE n : n \in @}]

\* A bug the loader does not have: CREATE where the statement says MERGE.
MergeRel_Create(g, type, src, dst, props) ==
    [g EXCEPT !.rels = @ \cup {[rid |-> g.next, type |-> type, src |-> src, dst |-> dst, props |-> props]},
              !.next = @ + 1]

\* MERGE (a)-[r:type]->(b) SET r.k = v ... for one bound pair (a, b).
MergeRel(g, type, src, dst, props) ==
    LET m == {r \in g.rels : r.type = type /\ r.src = src /\ r.dst = dst}
    IN IF m = {}
       THEN [g EXCEPT !.rels = @ \cup {[rid |-> g.next, type |-> type, src |-> src, dst |-> dst, props |-> props]},
                      !.next = @ + 1]
       ELSE [g EXCEPT !.rels = {IF r \in m THEN [r EXCEPT !.props = props @@ r.props] ELSE r : r \in @}]

\* The MERGE of a relationship applied to every row the preceding MATCH
\* clauses produced (pairs of element ids), in ascending order.
RECURSIVE MergeRels(_, _, _, _)
MergeRels(g, type, pairs, props) ==
    IF pairs = {} THEN g
    ELSE LET p == CHOOSE q \in pairs : \A o \in pairs : q[1] < o[1] \/ (q[1] = o[1] /\ q[2] <= o[2])
         IN MergeRels(MergeRel(g, type, p[1], p[2], props), type, pairs \ {p}, props)

\* MATCH (n:label)
NodesOf(g, label) == {n \in g.nodes : n.label = label}
Nids(ns) == {n.nid : n \in ns}

NoProps == [x \in {} |-> ""]

\* etl.py:140-143. A statement's outcome: ok, and the graph it leaves.
MergeCategory(g, row) ==
    [ok |-> TRUE, graph |-> MergeNode(g, "Category", row.id, [name |-> row.name])]

\* etl.py:148-159. The node is merged and set before the MATCH of the
\* category; a MATCH without a row ends the statement with the node kept.
MergeProduct(g, row) ==
    LET g1 == MergeNode(g, "Product", row.id, [name |-> row.name, price |-> Float[row.price]])
        ps == Nids(Match(g1, "Product", row.id))
        cs == Nids(Match(g1, "Category", row.category_id))
    IN [ok |-> TRUE, graph |-> MergeRels(g1, "IN_CATEGORY", ps \X cs, NoProps)]

\* etl.py:164-171. date() of a text that is no date fails the statement.
MergeCustomer(g, row) ==
    LET text == Str[row.join_date]
    IN IF text \notin DOMAIN CypherDate THEN [ok |-> FALSE, graph |-> g]
       ELSE [ok |-> TRUE,
             graph |-> MergeNode(g, "Customer", row.id, [name |-> row.name, join_date |-> CypherDate[text]])]

\* etl.py:177-188.
MergeOrder(g, row) ==
    LET ts_iso == IsoFormat[row.ts]
    IN IF ts_iso \notin DOMAIN CypherDatetime THEN [ok |-> FALSE, graph |-> g]
       ELSE LET g1 == MergeNode(g, "Order", row.id, [ts |-> CypherDatetime[ts_iso]])
                os == Nids(Match(g1, "Order", row.id))
                cs == Nids(Match(g1, "Customer", row.customer_id))
            IN [ok |-> TRUE, graph |-> MergeRels(g1, "PLACED", cs \X os, NoProps)]

\* A bug the loader does not have: the quantity of the row added to the one
\* the relationship holds.
MergeOrderItem_Accumulate(g, row) ==
    LET os == Nids(Match(g, "Order", row.order_id))
        ps == Nids(Match(g, "Product", row.product_id))
        old == {r \in g.rels : r.type = "CONTAINS" /\ r.src \in os /\ r.dst \in ps}
        held == IF old = {} THEN 0 ELSE (CHOOSE r \in old : TRUE).props.quantity
    IN [ok |-> TRUE, graph |-> MergeRels(g, "CONTAINS", os \X ps, [quantity |-> held + row.quantity])]

\* etl.py:193-202. int() of an integer column keeps its value.
MergeOrderItem(g, row) ==
    LET os == Nids(Match(g, "Order", row.order_id))
        ps == Nids(Match(g, "Product", row.product_id))
    IN [ok |-> TRUE, graph |-> MergeRels(g, "CONTAINS", os \X ps, [quantity |-> row.quantity])]

\* etl.py:207-221. The relationship type is the upper-cased event type,
\* written into the statement text.
MergeEvent(g, row) ==
    LET rel_type == Upper[row.event_type]
        ts_iso == IsoFormat[row.ts]
        cs == Nids(Match(g, "Customer", row.customer_id))
        ps == Nids(Match(g, "Product", row.product_id))
    IN IF cs \X ps # {} /\ ts_iso \notin DOMAIN CypherDatetime THEN [ok |-> FALSE, graph |-> g]
       ELSE [ok |-> TRUE,
             graph |-> MergeRels(g, rel_type, cs \X ps, [ts |-> CypherDatetime[ts_iso]])]

\* ------------------------------------------------------------- load order

\* A bug the loader does not have: products loaded before their categories.
LoadOrder_ProductsFirst == <<"products", "categories", "customers", "orders", "order_items", "events">>

\* The entity sets in the order etl() loads them (etl.py:137-221).
LoadOrder == <<"categories", "products", "customers", "orders", "order_items", "events">>
NumStages == Len(LoadOrder)

StatementOf(t, g, row) ==
    CASE t = "categories" -> MergeCategory(g, row)
      [] t = "products" -> MergeProduct(g, row)
      [] t = "customers" -> MergeCustomer(g, row)
      [] t = "orders" -> MergeOrder(g, row)
      [] t = "order_items" -> MergeOrderItem(g, row)
      [] t = "events" -> MergeEvent(g, row)

\* The graph a complete run of etl() leaves (etl.py:137-221): stage k from
\* its row j on, no statement failing.
RECURSIVE LoadFrom(_, _, _, _)
LoadFrom(g, d, k, j) ==
    IF k > NumStages THEN g
    ELSE IF j > Len(d[LoadOrder[k]]) THEN LoadFrom(g, d, k + 1, 1)
    ELSE LET after == StatementOf(LoadOrder[k], g, d[LoadOrder[k]][j]).graph
         IN \* each statement is applied to the graph before the next one is looked at
            IF after = g THEN LoadFrom(g, d, k, j + 1) ELSE LoadFrom(after, d, k, j + 1)

\* A source loaded at some earlier time, whose rows differ from Baseline's.
Earlier ==
    [categories |-> <<[id |-> 1, name |-> "Toys"], [id |-> 2, name |-> "Books"]>>,
     products |-> <<[id |-> 1, name |-> "Go Guide", price |-> "5.00", category_id |-> 2]>>,
     customers |-> <<[id |-> 1, name |-> "Ann", join_date |-> "date(2024,1,5)"],
                     [id |-> 2, name |-> "Ann", join_date |-> "date(2024,1,5)"]>>,
     orders |-> <<[id |-> 1, customer_id |-> 2, ts |-> "Timestamp(2)"]>>,
     order_items |-> <<[order_id |-> 1, product_id |-> 1, quantity |-> 2]>>,
     events |-> <<[customer_id |-> 1, product_id |-> 1, event_type |-> "view", ts |-> "Timestamp(2)"]>>]

\* The graph store before the first run: empty, or as a complete load of
\* Earlier left it.
InitialGraphs == {EmptyGraph, LoadFrom(EmptyGraph, Earlier, 1, 1)}

\* ------------------------------------------------------------------ state

VARIABLES
    db,            \* the relational source: table name -> rows
    queries,       \* the schema file queries.cypher beside etl.py
    max_retries,   \* the readiness gates' max_retries
    graph,         \* the graph store
    pc,            \* where etl() stands
    i,             \* the index of the loop etl() is in
    attempts,      \* connection attempts made, per readiness gate
    sleeps,        \* time.sleep(delay) calls made, per readiness gate
    pg_conn,       \* etl()'s relational connection: none, open, closed
    neo4j_driver,  \* etl()'s graph driver: none, open, closed
    statements,    \* run_cypher_file's list of statements
    executed,      \* the schema statements handed to run_cypher, with outcome
    df,            \* the extracted dataframes: table name -> rows
    loaded,        \* rows merged by this run, per table
    log,           \* what this run printed
    exc,           \* the exception etl() is raising, or "none"
    runs,          \* etl() runs started
    prev,          \* the graph this run started from, and how the run before ended
    service_driver, \* main.py's global neo4j_driver: 0 for None, or a driver of `drivers`
    drivers,       \* the drivers the service process has created: open or closed
    worker,        \* per request thread: where its handler stands, the driver it got
    pool,          \* the request threads the service runs handlers on
    stopped,       \* the service process has run its shutdown handler
    response       \* the response of the request handled last

etlVars == <<db, queries, max_retries, pc, i, attempts, sleeps, pg_conn, neo4j_driver,
             statements, executed, df, loaded, log, exc, runs, prev>>
serviceVars == <<service_driver, drivers, worker, pool, stopped, response>>
vars == <<etlVars, graph, serviceVars>>

Gates == {"postgres", "neo4j"}
EmptyDf == [t \in DOMAIN RowsOf |-> <<>>]
NoneLoaded == [t \in DOMAIN RowsOf |-> 0]
Msg(m, a) == [msg |-> m, arg |-> a]

\* Most request threads the service handles requests on at a time.
MaxWorkers == 2

\* A response: the endpoint and its arguments, what the handler returned
\* (recommendations, or for the other endpoints the body; status "error"
\* when it raised over a row or a closed driver, "unavailable" when the
\* store did not answer its query, "no_driver" when no driver could be
\* created), and what its query held on the way: the neighbours kept
\* with their common_products, the number of ranked candidates, and the
\* candidates left by LIMIT.
NoResponse ==
    [endpoint |-> "none", arg |-> 0, limit |-> 0, status |-> "ok", neighbors |-> {},
     candidates |-> 0, ranked |-> <<>>, recommendations |-> <<>>, body |-> <<>>]

\* main.py:23: the service process after import; no request has come in.
Idle == [pc |-> "idle", driver |-> 0]
ServiceStart ==
    /\ service_driver = 0
    /\ drivers = <<>>
    /\ worker = [w \in 1..MaxWorkers |-> Idle]
    /\ stopped = FALSE
    /\ response = NoResponse

\* The state in which a process is about to call etl() (etl.py:230-231).
Start ==
    /\ pc = "wait_for_postgres"
    /\ i = 0
    /\ attempts = [g \in Gates |-> 0]
    /\ sleeps = [g \in Gates |-> 0]
    /\ pg_conn = "none"
    /\ neo4j_driver = "none"
    /\ statements = <<>>
    /\ executed = <<>>
    /\ df = EmptyDf
    /\ loaded = NoneLoaded
    /\ log = <<>>
    /\ exc = "none"

\* Any source with the schema file absent, any schema file, or any
\* max_retries.
Init ==
    /\ \/ db \in Snapshots /\ queries = NoFile /\ max_retries = 1
       \/ db = Baseline /\ queries \in SchemaFiles /\ max_retries = 1
       \/ db = Baseline /\ queries = NoFile /\ max_retries \in 1..MaxRetries
    /\ graph \in InitialGraphs
    /\ runs = 1
    /\ prev = [complete |-> FALSE, graph |-> graph]
    /\ Start
    /\ ServiceStart
    /\ pool = 1

\* ------------------------------------------------------- readiness gates

\* A bug the gates do not have: the last attempt is taken for an earlier one.
Exhausted_OffByOne(k, n) == ~(k < n)

\* etl.py:32 and 55: attempt k (from 0) of n was the last one.
Exhausted(k, n) == ~(k < n - 1)

\* etl.py:22-36, one iteration of the loop. psycopg2.connect succeeds, raises
\* OperationalError, or raises something the except clause does not name.
WaitForPostgres ==
    /\ pc = "wait_for_postgres"
    /\ i < max_retries
    /\ attempts' = [attempts EXCEPT !["postgres"] = @ + 1]
    /\ \E outcome \in {"ok", "OperationalError", "Error"} :
        CASE outcome = "ok" ->
                /\ pc' = "wait_for_neo4j"
                /\ i' = 0
                /\ log' = Append(log, Msg("PostgreSQL is ready!", 0))
                /\ UNCHANGED <<sleeps, exc>>
          [] outcome = "OperationalError" /\ ~Exhausted(i, max_retries) ->
                /\ sleeps' = [sleeps EXCEPT !["postgres"] = @ + 1]
                /\ i' = i + 1
                /\ UNCHANGED <<pc, log, exc>>
          [] outcome = "OperationalError" /\ Exhausted(i, max_retries) ->
                /\ pc' = "done"
                /\ exc' = "PostgreSQL not available after max retries"
                /\ UNCHANGED <<i, sleeps, log>>
          [] outcome = "Error" ->
                /\ pc' = "done"
                /\ exc' = "Error"
                /\ UNCHANGED <<i, sleeps, log>>
    /\ UNCHANGED <<db, queries, max_retries, graph, pg_conn, neo4j_driver, statements,
                   executed, df, loaded, runs, prev>>
    /\ UNCHANGED serviceVars

\* etl.py:39-59, one iteration of the loop: every exception is caught.
WaitForNeo4j ==
    /\ pc = "wait_for_neo4j"
    /\ i < max_retries
    /\ attempts' = [attempts EXCEPT !["neo4j"] = @ + 1]
    /\ \E outcome \in {"ok", "Exception"} :
        CASE outcome = "ok" ->
                /\ pc' = "connect_postgres"
                /\ i' = 0
                /\ log' = Append(log, Msg("Neo4j is ready!", 0))
                /\ UNCHANGED <<sleeps, exc>>
          [] outcome = "Exception" /\ ~Exhausted(i, max_retries) ->
                /\ sleeps' = [sleeps EXCEPT !["neo4j"] = @ + 1]
                /\ i' = i + 1
                /\ UNCHANGED <<pc, log, exc>>
          [] outcome = "Exception" /\ Exhausted(i, max_retries) ->
                /\ pc' = "done"
                /\ exc' = "Neo4j not available after max retries"
                /\ UNCHANGED <<i, sleeps, log>>
    /\ UNCHANGED <<db, queries, max_retries, graph, pg_conn, neo4j_driver, statements,
                   executed, df, loaded, runs, prev>>
    /\ UNCHANGED serviceVars

\* ------------------------------------------------------------ connections

\* etl.py:103. A failure here leaves etl() before its try block.
ConnectPostgres ==
    /\ pc = "connect_postgres"
    /\ \E ok \in BOOLEAN :
        IF ok
        THEN /\ pg_conn' = "open"
             /\ pc' = "create_driver"
             /\ log' = Append(log, Msg("Connecting to databases...", 0))
             /\ UNCHANGED exc
        ELSE /\ pc' = "done"
             /\ exc' = "OperationalError"
             /\ log' = Append(log, Msg("Connecting to databases...", 0))
             /\ UNCHANGED pg_conn
    /\ UNCHANGED <<db, queries, max_retries, graph, i, attempts, sleeps, neo4j_driver,
                   statements, executed, df, loaded, runs, prev>>
    /\ UNCHANGED serviceVars

\* etl.py:104. Still before the try block: a failure here runs no finally.
CreateDriver ==
    /\ pc = "create_driver"
    /\ \E ok \in BOOLEAN :
        IF ok
        THEN /\ neo4j_driver' = "open"
             /\ pc' = "schema"
             /\ UNCHANGED exc
        ELSE /\ pc' = "done"
             /\ exc' = "DriverError"
             /\ UNCHANGED neo4j_driver
    /\ UNCHANGED <<db, queries, max_retries, graph, i, attempts, sleeps, pg_conn,
                   statements, executed, df, loaded, log, runs, prev>>
    /\ UNCHANGED serviceVars

\* etl.py:225-227. pg_conn.close() first; when it raises, the driver's
\* close() is not reached.
Finally ==
    /\ pc = "finally"
    /\ pc' = "done"
    /\ \E outcome \in {"closed", "pg_close_raises", "driver_close_raises"} :
        CASE outcome = "closed" ->
                /\ pg_conn' = "closed"
                /\ neo4j_driver' = "closed"
                /\ UNCHANGED exc
          [] outcome = "pg_close_raises" ->
                /\ exc' = "ConnectionCloseError"
                /\ UNCHANGED <<pg_conn, neo4j_driver>>
          [] outcome = "driver_close_raises" ->
                /\ pg_conn' = "closed"
                /\ exc' = "DriverCloseError"
                /\ UNCHANGED neo4j_driver
    /\ UNCHANGED <<db, queries, max_retries, graph, i, attempts, sleeps, statements,
                   executed, df, loaded, log, runs, prev>>
    /\ UNCHANGED serviceVars

\* ---------------------------------------------------------- schema setup

\* etl.py:108-111 and 71-76: the file is looked up, read and split.
SchemaSetup ==
    /\ pc = "schema"
    /\ IF ~queries.exists
       THEN /\ pc' = "extract"
            /\ log' = Append(log, Msg("queries.cypher not found, skipping schema setup", 0))
            /\ UNCHANGED <<statements, i, exc>>
       ELSE \E readable \in BOOLEAN :
            IF readable
            THEN /\ statements' = Statements(queries.content)
                 /\ i' = 1
                 /\ pc' = IF statements' = <<>> THEN "extract" ELSE "schema_statement"
                 /\ log' = Append(log, Msg("Running Cypher file", 0))
                 /\ UNCHANGED exc
            ELSE /\ pc' = "finally"
                 /\ exc' = "OSError"
                 /\ log' = Append(log, Msg("Running Cypher file", 0))
                 /\ UNCHANGED <<statements, i>>
    /\ UNCHANGED <<db, queries, max_retries, graph, attempts, sleeps, pg_conn, neo4j_driver,
                   executed, df, loaded, runs, prev>>
    /\ UNCHANGED serviceVars

\* etl.py:78-83, one iteration: the statement runs, or fails with a warning.
SchemaStatement ==
    /\ pc = "schema_statement"
    /\ i <= Len(statements)
    /\ \E ok \in BOOLEAN :
        /\ executed' = Append(executed, [stmt |-> statements[i], ok |-> ok])
        /\ log' = Append(log, IF ok THEN Msg("Executed", statements[i])
                              ELSE Msg("Warning executing statement", statements[i]))
    /\ i' = i + 1
    /\ pc' = IF i = Len(statements) THEN "extract" ELSE pc
    /\ UNCHANGED <<db, queries, max_retries, graph, attempts, sleeps, pg_conn, neo4j_driver,
                   statements, df, loaded, exc, runs, prev>>
    /\ UNCHANGED serviceVars

\* ------------------------------------------------------------------- load

LoadPc == [categories |-> "load_categories", products |-> "load_products",
           customers |-> "load_customers", orders |-> "load_orders",
           order_items |-> "load_order_items", events |-> "load_events"]

\* Control reaches the loop of stage k: its header is printed, and a loop
\* over an empty dataframe falls through to the next stage. After the last
\* stage "ETL done !" is printed and the finally block runs.
RECURSIVE EnterStage(_, _, _)
EnterStage(k, lg, d) ==
    IF k > NumStages THEN [pc |-> "finally", log |-> Append(lg, Msg("ETL done !", 0))]
    ELSE IF d[LoadOrder[k]] = <<>> THEN EnterStage(k + 1, Append(lg, Msg("Loading", LoadOrder[k])), d)
    ELSE [pc |-> LoadPc[LoadOrder[k]], log |-> Append(lg, Msg("Loading", LoadOrder[k]))]

\* etl.py:113-135: the six tables are read, or a read fails.
Extract ==
    /\ pc = "extract"
    /\ \E ok \in BOOLEAN :
        IF ok
        THEN /\ df' = db
             /\ LET e == EnterStage(1, Append(log, Msg("Extracting data from PostgreSQL...", 0)), db)
                IN pc' = e.pc /\ log' = e.log
             /\ i' = 1
             /\ UNCHANGED exc
        ELSE /\ pc' = "finally"
             /\ exc' = "DatabaseError"
             /\ log' = Append(log, Msg("Extracting data from PostgreSQL...", 0))
             /\ UNCHANGED <<df, i>>
    /\ UNCHANGED <<db, queries, max_retries, graph, attempts, sleeps, pg_conn, neo4j_driver,
                   statements, executed, loaded, runs, prev>>
    /\ UNCHANGED serviceVars

\* One iteration of the loop over table t: run_cypher on row i (etl.py:62-66).
\* The statement fails on its own data, or the store fails it; nothing
\* catches the exception, which leaves the loop for the finally block.
LoadRow(t) ==
    LET k == CHOOSE j \in 1..NumStages : LoadOrder[j] = t
    IN /\ pc = LoadPc[t]
       /\ i <= Len(df[t])
       /\ \E storeOk \in BOOLEAN :
           LET r == StatementOf(t, graph, df[t][i])
           IN IF storeOk /\ r.ok
              THEN /\ graph' = r.graph
                   /\ loaded' = [loaded EXCEPT ![t] = @ + 1]
                   /\ IF i < Len(df[t])
                      THEN i' = i + 1 /\ UNCHANGED <<pc, log>>
                      ELSE LET e == EnterStage(k + 1, log, df)
                           IN pc' = e.pc /\ log' = e.log /\ i' = 1
                   /\ UNCHANGED exc
              ELSE /\ pc' = "finally"
                   /\ exc' = "Neo4jError"
                   /\ UNCHANGED <<graph, loaded, i, log>>
       /\ UNCHANGED <<db, queries, max_retries, attempts, sleeps, pg_conn, neo4j_driver,
                      statements, executed, df, runs, prev>>
       /\ UNCHANGED serviceVars

LoadCategories == LoadRow("categories")
LoadProducts == LoadRow("products")
LoadCustomers == LoadRow("customers")
LoadOrders == LoadRow("orders")
LoadOrderItems == LoadRow("order_items")
LoadEvents == LoadRow("events")

\* --------------------------------------------------------------- next run

\* The run went through every load loop (etl.py:223).
Completed == log # <<>> /\ log[Len(log)].msg = "ETL done !"

\* etl() has returned or raised; the process ends and a new one calls etl()
\* against the same source and the same graph store.
Rerun ==
    /\ pc = "done"
    /\ runs < MaxRuns
    /\ runs' = runs + 1
    /\ prev' = [complete |-> Completed, graph |-> graph]
    /\ pc' = "wait_for_postgres"
    /\ i' = 0
    /\ attempts' = [g \in Gates |-> 0]
    /\ sleeps' = [g \in Gates |-> 0]
    /\ pg_conn' = "none"
    /\ neo4j_driver' = "none"
    /\ statements' = <<>>
    /\ executed' = <<>>
    /\ df' = EmptyDf
    /\ loaded' = NoneLoaded
    /\ log' = <<>>
    /\ exc' = "none"
    /\ UNCHANGED <<db, queries, max_retries, graph>>
    /\ UNCHANGED serviceVars

Next ==
    \/ WaitForPostgres
    \/ WaitForNeo4j
    \/ ConnectPostgres
    \/ CreateDriver
    \/ SchemaSetup
    \/ SchemaStatement
    \/ Extract
    \/ LoadCategories
    \/ LoadProducts
    \/ LoadCustomers
    \/ LoadOrders
    \/ LoadOrderItems
    \/ LoadEvents
    \/ Finally
    \/ Rerun

Spec == Init /\ [][Next]_vars

\* ---------------------------------------------------------------- service

\* Longest order_items table of the sources the endpoints are queried over.
MaxItems == 2
\* Largest limit an endpoint is called with.
MaxLimit == 3

QueryProdIds == {1, 2, 3}
QueryItemRows == [order_id : OrderIds, product_id : QueryProdIds, quantity : Quantities]

\* The sources behind the graphs the endpoints are queried over: three
\* products in two categories, two customers with one order each, and any
\* order_items table of at most MaxItems rows.
QuerySnapshots ==
    {[categories |-> <<[id |-> 1, name |-> "Books"], [id |-> 2, name |-> "Toys"]>>,
      products |-> <<[id |-> 1, name |-> "Go Guide", price |-> "29.99", category_id |-> 1],
                     [id |-> 2, name |-> "Go Guide", price |-> "5.00", category_id |-> 1],
                     [id |-> 3, name |-> "Go Guide", price |-> "5.00", category_id |-> 2]>>,
      customers |-> <<[id |-> 1, name |-> "Ann", join_date |-> "date(2024,1,5)"],
                      [id |-> 2, name |-> "Ann", join_date |-> "date(2024,1,5)"]>>,
      orders |-> <<[id |-> 1, customer_id |-> 1, ts |-> "Timestamp(1)"],
                   [id |-> 2, customer_id |-> 2, ts |-> "Timestamp(2)"]>>,
      order_items |-> items,
      events |-> <<>>] : items \in SeqsUpTo(QueryItemRows, MaxItems)}

RECURSIVE Perms(_)
Perms(S) == IF S = {} THEN {<<>>} ELSE UNION {{<<x>> \o f : f \in Perms(S \ {x})} : x \in S}
Pos(f, x) == CHOOSE k \in DOMAIN f : f[k] = x
Min(a, b) == IF a < b THEN a ELSE b

RECURSIVE SumOver(_, _)
SumOver(S, val) ==
    IF S = {} THEN 0
    ELSE LET x == CHOOSE y \in S : TRUE IN val[x] + SumOver(S \ {x}, val)

NodeOf(g, nid) == CHOOSE n \in g.nodes : n.nid = nid
HasLabel(g, nid, label) == \E n \in g.nodes : n.nid = nid /\ n.label = label

\* ORDER BY key DESC over the rows S: rows with equal keys come in the order
\* the store happens to produce them, here the order `arrival`.
RECURSIVE SortDesc(_)
SortDesc(T) ==
    IF T = {} THEN <<>>
    ELSE LET first == CHOOSE t \in T : \A u \in T : t[2] > u[2] \/ (t[2] = u[2] /\ t[3] <= u[3])
         IN <<first[1]>> \o SortDesc(T \ {first})
OrderByDesc(S, key, arrival) == SortDesc({<<x, key[x], Pos(arrival, x)>> : x \in S})

\* LIMIT n
Limit(rows, n) == SubSeq(rows, 1, Min(n, Len(rows)))

\* main.py:222-223: MATCH (p:Product)<-[r:CONTAINS]-(:Order), grouped by p.
ContainsInto(g, p) ==
    {r \in g.rels : r.type = "CONTAINS" /\ r.dst = p /\ HasLabel(g, r.src, "Order")}
SoldProducts(g) == {p \in Nids(NodesOf(g, "Product")) : ContainsInto(g, p) # {}}
TotalSold(g) ==
    [p \in SoldProducts(g) |->
        SumOver(ContainsInto(g, p), [r \in ContainsInto(g, p) |-> r.props.quantity])]

\* MATCH (p)-[:IN_CATEGORY]->(cat:Category) for one product, its rows in the
\* order `arrival` of the categories.
CategoriesOf(g, p, arrival) ==
    LET cats == {c \in Nids(NodesOf(g, "Category")) :
                    \E r \in g.rels : r.type = "IN_CATEGORY" /\ r.src = p /\ r.dst = c}
    IN OrderByDesc(cats, [c \in cats |-> 0], arrival)

\* main.py:221-240: the ranked products, each joined with its categories.
RECURSIVE PopularRows(_, _, _, _)
PopularRows(g, ranked, total, catArrival) ==
    IF ranked = <<>> THEN <<>>
    ELSE LET p == NodeOf(g, ranked[1])
             cats == CategoriesOf(g, ranked[1], catArrival)
         IN [k \in 1..Len(cats) |->
                [product_id |-> p.id, product_name |-> p.props.name, price |-> p.props.price,
                 category |-> NodeOf(g, cats[k]).props.name, total_sold |-> total[ranked[1]]]]
            \o PopularRows(g, Tail(ranked), total, catArrival)

\* ------------------------------------------------- the service's driver

\* main.py:25-27: a handler is called on thread w and calls
\* get_neo4j_driver(), which tests the global for None. The response of the
\* request before is sent by now.
GetDriverTest(w) ==
    /\ ~stopped
    /\ w <= pool
    /\ worker[w].pc = "idle"
    /\ worker' = [worker EXCEPT ![w].pc = IF service_driver = 0 THEN "create" ELSE "return"]
    /\ response' = NoResponse
    /\ UNCHANGED <<service_driver, drivers, pool, stopped>>
    /\ UNCHANGED <<etlVars, graph>>

\* The identifiers requests name: those of the source and some of no node.
CustomerArgs == {1, 2, 3, 4}
ProductArgs == {1, 2, 3, 4}

\* The requests: the endpoint called and the identifier in its path, if any.
Requests ==
    [endpoint : {"health", "stats", "products", "popular"}, arg : {0}]
    \cup [endpoint : {"orders", "collaborative", "content"}, arg : CustomerArgs]
    \cup [endpoint : {"together"}, arg : ProductArgs]

\* The response of a request that ended with an error its handler passed on.
Failed(endpoint, arg, status) ==
    [NoResponse EXCEPT !.endpoint = endpoint, !.arg = arg, !.status = status]

\* The errors of the store and its driver that handlers pass on: the store
\* did not answer the query, or no driver could be created.
StoreFailures == {"unavailable", "no_driver"}

\* main.py:28: the thread found None; it creates a driver and assigns it to
\* the global, whatever the global holds by now. When GraphDatabase.driver
\* raises, nothing is assigned and the request, whichever it is, ends with
\* the error; health_check catches it and answers ok False (main.py:46-47).
GetDriverCreate(w) ==
    /\ worker[w].pc = "create"
    /\ \/ /\ drivers' = Append(drivers, "open")
          /\ service_driver' = Len(drivers) + 1
          /\ worker' = [worker EXCEPT ![w].pc = "return"]
          /\ UNCHANGED response
       \/ /\ \E req \in Requests :
                response' = IF req.endpoint = "health"
                            THEN [NoResponse EXCEPT !.endpoint = "health",
                                                    !.body = <<[ok |-> FALSE, error |-> "neo4j"]>>]
                            ELSE Failed(req.endpoint, req.arg, "no_driver")
          /\ worker' = [worker EXCEPT ![w] = Idle]
          /\ UNCHANGED <<service_driver, drivers>>
    /\ UNCHANGED <<pool, stopped>>
    /\ UNCHANGED <<etlVars, graph>>

\* main.py:29: return neo4j_driver reads the global again.
GetDriverReturn(w) ==
    /\ worker[w].pc = "return"
    /\ worker' = [worker EXCEPT ![w] = [pc |-> "query", driver |-> service_driver]]
    /\ UNCHANGED <<service_driver, drivers, pool, stopped, response>>
    /\ UNCHANGED <<etlVars, graph>>

GetDriver == \E w \in 1..MaxWorkers : GetDriverTest(w) \/ GetDriverCreate(w) \/ GetDriverReturn(w)

\* main.py:280-284: the server has stopped taking requests, every handler
\* has returned and every response is sent; the driver the global holds, if
\* any, is closed, unless its close() raises, which leaves it open.
ShutdownEvent ==
    /\ ~stopped
    /\ \A w \in 1..MaxWorkers : worker[w].pc = "idle"
    /\ stopped' = TRUE
    /\ \E closes \in BOOLEAN :
          drivers' = IF service_driver # 0 /\ closes
                     THEN [drivers EXCEPT ![service_driver] = "closed"] ELSE drivers
    /\ response' = NoResponse
    /\ UNCHANGED <<service_driver, worker, pool>>
    /\ UNCHANGED <<etlVars, graph>>

\* The handler on thread w has its driver and runs its query in a session
\* of it (with driver.session() ...), but the store does not answer:
\* session.run raises ServiceUnavailable, the handler catches nothing, and
\* the request ends with that error. The driver stays as it is.
Unavailable(w, endpoint, arg) ==
    /\ worker[w].pc = "query"
    /\ worker' = [worker EXCEPT ![w] = Idle]
    /\ response' = Failed(endpoint, arg, "unavailable")
    /\ UNCHANGED <<service_driver, drivers, pool, stopped>>
    /\ UNCHANGED <<etlVars, graph>>

\* The store answers the query of the handler on thread w: the handler
\* returns resp and the thread is free. float(record["price"]) raises on a
\* row without a price, and a session of a closed driver cannot be opened.
Serve(w, resp) ==
    /\ worker[w].pc = "query"
    /\ worker' = [worker EXCEPT ![w] = Idle]
    /\ response' = IF drivers[worker[w].driver] = "open" /\ resp.status = "ok"
                   THEN resp
                   ELSE [resp EXCEPT !.status = "error", !.recommendations = <<>>, !.body = <<>>]
    /\ UNCHANGED <<service_driver, drivers, pool, stopped>>
    /\ UNCHANGED <<etlVars, graph>>

\* float(record["price"]) over the rows of a result (main.py:87, 122, 165,
\* 206, 237, 272).
FloatStatus(g, nids) ==
    IF \A k \in 1..Len(nids) : "price" \in DOMAIN NodeOf(g, nids[k]).props THEN "ok" ELSE "error"

\* ------------------------------------------------------------- popularity

\* main.py:213-242: GET /recommendations/popular. Rows with equal
\* total_sold are ranked in any order: the query gives no other sort key.
\* (Here and in the handlers below, \E x \in {e} names the value of e,
\* computed once.)
PopularProducts ==
    \E w \in 1..MaxWorkers :
       /\ worker[w].pc = "query"
       /\ \/ Unavailable(w, "popular", 0)
          \/ \E limit \in 0..MaxLimit,
                prodArrival \in Perms(SoldProducts(graph)),
                catArrival \in Perms(Nids(NodesOf(graph, "Category"))) :
             \E total \in {TotalSold(graph)} :
             \E ranked \in {Limit(OrderByDesc(SoldProducts(graph), total, prodArrival), limit)} :
                Serve(w, [endpoint |-> "popular", arg |-> 0, limit |-> limit,
                          status |-> FloatStatus(graph, ranked), neighbors |-> {},
                          candidates |-> Cardinality(SoldProducts(graph)), ranked |-> ranked,
                          recommendations |-> PopularRows(graph, ranked, total, catArrival),
                          body |-> <<>>])

\* ---------------------------------------------------------- collaborative

\* main.py:147: LIMIT 10 on the neighbour customers.
NeighborLimit == 10

\* MATCH (c)-[:PLACED]->(:Order)-[:CONTAINS]->(p:Product) from the customer
\* node c: one row per pair of relationships.
Purchases(g, c) ==
    {pth \in {r \in g.rels : r.type = "PLACED" /\ r.src = c} \X {r \in g.rels : r.type = "CONTAINS"} :
        /\ pth[2].src = pth[1].dst
        /\ HasLabel(g, pth[1].dst, "Order")
        /\ HasLabel(g, pth[2].dst, "Product")}

\* main.py:141: collect(p) AS customer_products, as far as IN tests it.
Purchased(g, c) == {pth[2].dst : pth \in Purchases(g, c)}

\* main.py:143-145: count(p) AS common_products for the neighbour `other`:
\* the rows of the MATCH whose product the target customer purchased.
CommonProducts(g, c, other) ==
    Cardinality({pth \in Purchases(g, other) : pth[2].dst \in Purchased(g, c)})

\* main.py:143-144: the customers the second MATCH yields rows for.
Others(g, c) ==
    {o \in Nids(NodesOf(g, "Customer")) \ {c} : CommonProducts(g, c, o) > 0}

\* ORDER BY key DESC LIMIT n, as the set of rows kept: rows with equal keys
\* at the cut are kept in any combination.
TopSets(S, key, n) ==
    {N \in SUBSET S : /\ Cardinality(N) = Min(n, Cardinality(S))
                      /\ \A x \in N, y \in S \ N : key[x] >= key[y]}

\* A bug the query does not have: the products the target purchased are
\* left among the candidates.
CollaborativeCandidates_Unfiltered(g, c, neighbors) ==
    {p \in Nids(NodesOf(g, "Product")) : \E o \in neighbors : p \in Purchased(g, o)}

\* main.py:149-150: the products the kept neighbours purchased and the
\* target did not.
CollaborativeCandidates(g, c, neighbors) ==
    {p \in Nids(NodesOf(g, "Product")) :
        p \notin Purchased(g, c) /\ \E o \in neighbors : p \in Purchased(g, o)}

\* main.py:151: count(DISTINCT other) AS score.
Score(g, neighbors, p) == Cardinality({o \in neighbors : p \in Purchased(g, o)})

\* main.py:155-168: the ranked products, each joined with its categories.
RECURSIVE CollaborativeRows(_, _, _, _)
CollaborativeRows(g, ranked, score, catArrival) ==
    IF ranked = <<>> THEN <<>>
    ELSE LET p == NodeOf(g, ranked[1])
             cats == CategoriesOf(g, ranked[1], catArrival)
         IN [k \in 1..Len(cats) |->
                [product_id |-> p.id, product_name |-> p.props.name, price |-> p.props.price,
                 category |-> NodeOf(g, cats[k]).props.name, score |-> score[ranked[1]]]]
            \o CollaborativeRows(g, Tail(ranked), score, catArrival)

\* main.py:128-170: GET /recommendations/collaborative/{customer_id}. When
\* no Customer node has the id, or the customer purchased nothing, the first
\* MATCH has no row and the query none. The store holds one node per id.
CollaborativeFiltering ==
    \E w \in 1..MaxWorkers :
       /\ worker[w].pc = "query"
       /\ \/ \E customer_id \in CustomerArgs : Unavailable(w, "collaborative", customer_id)
          \/ \E customer_id \in CustomerArgs, limit \in 0..MaxLimit :
             LET cs == {c \in Nids(Match(graph, "Customer", customer_id)) : Purchases(graph, c) # {}}
                 none == [endpoint |-> "collaborative", arg |-> customer_id, limit |-> limit,
                          status |-> "ok", neighbors |-> {}, candidates |-> 0, ranked |-> <<>>,
                          recommendations |-> <<>>, body |-> <<>>]
             IN IF cs = {}
                THEN Serve(w, none)
                ELSE \E c \in cs :
                     \E nb \in TopSets(Others(graph, c),
                                       [o \in Others(graph, c) |-> CommonProducts(graph, c, o)],
                                       NeighborLimit) :
                     \E prodArrival \in Perms(CollaborativeCandidates(graph, c, nb)),
                        catArrival \in Perms(Nids(NodesOf(graph, "Category"))) :
                        \E cand \in {CollaborativeCandidates(graph, c, nb)} :
                        \E score \in {[p \in cand |-> Score(graph, nb, p)]} :
                        \E ranked \in {Limit(OrderByDesc(cand, score, prodArrival), limit)} :
                           Serve(w, [none EXCEPT
                               !.status = FloatStatus(graph, ranked),
                               !.neighbors = {[customer |-> NodeOf(graph, o).id,
                                               common_products |-> CommonProducts(graph, c, o)] : o \in nb},
                               !.candidates = Cardinality(cand),
                               !.ranked = ranked,
                               !.recommendations = CollaborativeRows(graph, ranked, score, catArrival)])

\* ---------------------------------------------------------- content based

\* A bug the query does not have: every category taken for a liked one.
LikedCategories_All(g, c) == Nids(NodesOf(g, "Category"))

\* main.py:185-186: collect(DISTINCT cat) over the categories of the
\* products the customer purchased.
LikedCategories(g, c) ==
    {cat \in Nids(NodesOf(g, "Category")) :
        \E pth \in Purchases(g, c), r \in g.rels :
            r.type = "IN_CATEGORY" /\ r.src = pth[2].dst /\ r.dst = cat}

\* main.py:188-193: the IN_CATEGORY relationships from rec to cat; their
\* number is count(*) AS relevance of the row (rec, cat).
InCategory(g, rec, cat) == {r \in g.rels : r.type = "IN_CATEGORY" /\ r.src = rec /\ r.dst = cat}

\* main.py:188-192: products of a liked category the customer has no
\* PLACED-CONTAINS path to, one row per (rec, cat).
ContentCandidates(g, c) ==
    {rc \in Nids(NodesOf(g, "Product")) \X LikedCategories(g, c) :
        InCategory(g, rc[1], rc[2]) # {} /\ rc[1] \notin Purchased(g, c)}

\* main.py:197-208.
ContentRows(g, ranked) ==
    [k \in 1..Len(ranked) |->
        [product_id |-> NodeOf(g, ranked[k][1]).id,
         product_name |-> NodeOf(g, ranked[k][1]).props.name,
         price |-> NodeOf(g, ranked[k][1]).props.price,
         category |-> NodeOf(g, ranked[k][2]).props.name]]

\* main.py:173-210: GET /recommendations/content/{customer_id}. Without a
\* Customer node of the id, or a liked category, the first MATCH has no row.
ContentBased ==
    \E w \in 1..MaxWorkers :
       /\ worker[w].pc = "query"
       /\ \/ \E customer_id \in CustomerArgs : Unavailable(w, "content", customer_id)
          \/ \E customer_id \in CustomerArgs, limit \in 0..MaxLimit :
             LET cs == {c \in Nids(Match(graph, "Customer", customer_id)) : LikedCategories(graph, c) # {}}
                 none == [endpoint |-> "content", arg |-> customer_id, limit |-> limit,
                          status |-> "ok", neighbors |-> {}, candidates |-> 0, ranked |-> <<>>,
                          recommendations |-> <<>>, body |-> <<>>]
             IN IF cs = {}
                THEN Serve(w, none)
                ELSE \E c \in cs :
                     \E arrival \in Perms(ContentCandidates(graph, c)) :
                        \E cand \in {ContentCandidates(graph, c)} :
                        \E relevance \in {[rc \in cand |-> Cardinality(InCategory(graph, rc[1], rc[2]))]} :
                        \E ranked \in {Limit(OrderByDesc(cand, relevance, arrival), limit)} :
                           Serve(w, [none EXCEPT
                               !.status = FloatStatus(graph, [k \in 1..Len(ranked) |-> ranked[k][1]]),
                               !.candidates = Cardinality(cand),
                               !.ranked = [k \in 1..Len(ranked) |-> ranked[k][1]],
                               !.recommendations = ContentRows(graph, ranked)])

\* ------------------------------------------------ frequently bought together

\* main.py:256: MATCH (p)<-[:CONTAINS]-(o:Order)-[:CONTAINS]->(rec:Product):
\* one row per pair of distinct relationships (a relationship is traversed
\* once in a pattern).
CoPaths(g, p) ==
    {pth \in {r \in g.rels : r.type = "CONTAINS" /\ r.dst = p} \X {r \in g.rels : r.type = "CONTAINS"} :
        /\ pth[1] # pth[2]
        /\ pth[2].src = pth[1].src
        /\ HasLabel(g, pth[1].src, "Order")
        /\ HasLabel(g, pth[2].dst, "Product")}

\* A bug the query does not have: no WHERE rec <> p.
TogetherCandidates_NoWhere(g, p) == {pth[2].dst : pth \in CoPaths(g, p)}

\* main.py:256-257: the products of those rows, WHERE rec <> p.
TogetherCandidates(g, p) == {pth[2].dst : pth \in CoPaths(g, p)} \ {p}

\* main.py:258: count(DISTINCT o) AS co_occurrences.
CoOccurrences(g, p, rec) == Cardinality({pth[1].src : pth \in {q \in CoPaths(g, p) : q[2].dst = rec}})

\* main.py:262-275: the ranked products, each joined with its categories.
RECURSIVE TogetherRows(_, _, _, _)
TogetherRows(g, ranked, co, catArrival) ==
    IF ranked = <<>> THEN <<>>
    ELSE LET rec == NodeOf(g, ranked[1])
             cats == CategoriesOf(g, ranked[1], catArrival)
         IN [k \in 1..Len(cats) |->
                [product_id |-> rec.id, product_name |-> rec.props.name, price |-> rec.props.price,
                 category |-> NodeOf(g, cats[k]).props.name, co_occurrences |-> co[ranked[1]]]]
            \o TogetherRows(g, Tail(ranked), co, catArrival)

\* main.py:245-277: GET /recommendations/frequently-bought-together/{product_id}.
FrequentlyBoughtTogether ==
    \E w \in 1..MaxWorkers :
       /\ worker[w].pc = "query"
       /\ \/ \E product_id \in ProductArgs : Unavailable(w, "together", product_id)
          \/ \E product_id \in ProductArgs, limit \in 0..MaxLimit :
             LET ps == Nids(Match(graph, "Product", product_id))
                 none == [endpoint |-> "together", arg |-> product_id, limit |-> limit,
                          status |-> "ok", neighbors |-> {}, candidates |-> 0, ranked |-> <<>>,
                          recommendations |-> <<>>, body |-> <<>>]
             IN IF ps = {}
                THEN Serve(w, none)
                ELSE \E p \in ps :
                     \E prodArrival \in Perms(TogetherCandidates(graph, p)),
                        catArrival \in Perms(Nids(NodesOf(graph, "Category"))) :
                        \E cand \in {TogetherCandidates(graph, p)} :
                        \E co \in {[rec \in cand |-> CoOccurrences(graph, p, rec)]} :
                        \E ranked \in {Limit(OrderByDesc(cand, co, prodArrival), limit)} :
                           Serve(w, [none EXCEPT
                               !.status = FloatStatus(graph, ranked),
                               !.candidates = Cardinality(cand),
                               !.ranked = ranked,
                               !.recommendations = TogetherRows(graph, ranked, co, catArrival)])

\* ------------------------------------------------- the other endpoints

\* main.py:32-47: GET /health. The handler runs RETURN 1 in a session of its
\* driver, which the store answers or not, and then opens a connection to
\* PostgreSQL, which is up or not; the first that raises is caught and
\* answered with ok False, the exception named in error.
HealthCheck ==
    \E w \in 1..MaxWorkers :
       /\ worker[w].pc = "query"
       /\ \E neo4j_answers \in BOOLEAN, postgres_up \in BOOLEAN :
          LET neo4j_up == drivers[worker[w].driver] = "open" /\ neo4j_answers
              answer == IF neo4j_up /\ postgres_up THEN [ok |-> TRUE, status |-> "healthy"]
                        ELSE [ok |-> FALSE, error |-> IF neo4j_up THEN "psycopg2" ELSE "neo4j"]
          IN /\ worker' = [worker EXCEPT ![w] = Idle]
             /\ response' = [NoResponse EXCEPT !.endpoint = "health", !.body = <<answer>>]
             /\ UNCHANGED <<service_driver, drivers, pool, stopped>>
             /\ UNCHANGED <<etlVars, graph>>

\* main.py:50-66: GET /stats, count(n) over the nodes of each label.
GetStats ==
    \E w \in 1..MaxWorkers :
       /\ worker[w].pc = "query"
       /\ \/ Unavailable(w, "stats", 0)
          \/ Serve(w, [NoResponse EXCEPT
                 !.endpoint = "stats",
                 !.body = <<[customers |-> Cardinality(NodesOf(graph, "Customer")),
                             products |-> Cardinality(NodesOf(graph, "Product")),
                             orders |-> Cardinality(NodesOf(graph, "Order")),
                             categories |-> Cardinality(NodesOf(graph, "Category"))]>>])

\* ORDER BY key (ascending) over the rows S, equal keys in the order `arrival`.
OrderBy(S, key, arrival) == OrderByDesc(S, [x \in S |-> 0 - key[x]], arrival)

\* The place of a product name in the order Cypher compares strings by.
NameRank == [n \in {"Ada Intro", "Go Guide"} |-> IF n = "Ada Intro" THEN 1 ELSE 2]

\* main.py:76: MATCH (p:Product)-[:IN_CATEGORY]->(c:Category), one row per
\* relationship.
ProductCategoryRows(g) ==
    {r \in g.rels : r.type = "IN_CATEGORY" /\ HasLabel(g, r.src, "Product")
                                           /\ HasLabel(g, r.dst, "Category")}

\* main.py:69-91: GET /products, the rows ordered by p.name; rows of one
\* name come in any order.
ListProducts ==
    \E w \in 1..MaxWorkers :
       /\ worker[w].pc = "query"
       /\ \/ Unavailable(w, "products", 0)
          \/ \E rows \in {ProductCategoryRows(graph)} :
             \E arrival \in Perms(rows) :
             \E sorted \in {OrderBy(rows, [r \in rows |-> NameRank[NodeOf(graph, r.src).props.name]],
                                    arrival)} :
                Serve(w, [NoResponse EXCEPT
                    !.endpoint = "products",
                    !.status = FloatStatus(graph, [k \in 1..Len(sorted) |-> sorted[k].src]),
                    !.body = [k \in 1..Len(sorted) |->
                                 [id |-> NodeOf(graph, sorted[k].src).id,
                                  name |-> NodeOf(graph, sorted[k].src).props.name,
                                  price |-> NodeOf(graph, sorted[k].src).props.price,
                                  category |-> NodeOf(graph, sorted[k].dst).props.name]]])

\* The place of an order's ts in the order Cypher compares datetimes by.
DateTimeRank ==
    [t \in {"DateTime{2024-01-01T10:00Z}", "DateTime{2024-01-02T10:00Z}"} |->
        IF t = "DateTime{2024-01-01T10:00Z}" THEN 1 ELSE 2]

\* str(record["order_date"]) (main.py:114) of the driver's DateTime.
StrDateTime ==
    [t \in {"DateTime{2024-01-01T10:00Z}", "DateTime{2024-01-02T10:00Z}"} |->
        IF t = "DateTime{2024-01-01T10:00Z}" THEN "2024-01-01T10:00:00.000000000+00:00"
        ELSE "2024-01-02T10:00:00.000000000+00:00"]

\* main.py:101: MATCH (c:Customer {id: $customer_id})-[:PLACED]->(o:Order)
\* -[r:CONTAINS]->(p:Product), one row per pair of relationships.
OrderRowsOf(g, customer_id) ==
    UNION {Purchases(g, c) : c \in Nids(Match(g, "Customer", customer_id))}

\* main.py:118-123: the items appended for the rows of one order, the rows
\* in the order they come in.
OrderItems(g, rows) ==
    [k \in 1..Len(rows) |->
        [product_id |-> NodeOf(g, rows[k][2].dst).id,
         product_name |-> NodeOf(g, rows[k][2].dst).props.name,
         quantity |-> rows[k][2].props.quantity,
         price |-> NodeOf(g, rows[k][2].dst).props.price]]

\* main.py:108-125: the orders dict as a list, for the order ids in the
\* order of their first rows: every way the rows of each order can come.
RECURSIVE OrderDicts(_, _, _)
OrderDicts(g, rows, order_ids) ==
    IF order_ids = <<>> THEN {<<>>}
    ELSE LET mine == {pth \in rows : NodeOf(g, pth[1].dst).id = order_ids[1]}
             first == CHOOSE pth \in mine : TRUE
         IN {<<[order_id |-> order_ids[1],
                order_date |-> StrDateTime[NodeOf(g, first[1].dst).props.ts],
                items |-> OrderItems(g, arrival)]>> \o rest :
                arrival \in Perms(mine), rest \in OrderDicts(g, rows, Tail(order_ids))}

\* main.py:94-125: GET /customers/{customer_id}/orders. The rows are ordered
\* by o.ts DESC and grouped by order id as they come: orders of one ts come
\* in any order, their rows interleaved, and so do the rows of one order.
CustomerOrders ==
    \E w \in 1..MaxWorkers :
       /\ worker[w].pc = "query"
       /\ \/ \E customer_id \in CustomerArgs : Unavailable(w, "orders", customer_id)
          \/ \E customer_id \in CustomerArgs :
             \E rows \in {OrderRowsOf(graph, customer_id)} :
             \E ids \in {{NodeOf(graph, pth[1].dst).id : pth \in rows}} :
             LET ts == [o \in ids |->
                          DateTimeRank[NodeOf(graph, (CHOOSE pth \in rows :
                                          NodeOf(graph, pth[1].dst).id = o)[1].dst).props.ts]]
                 products == {pth[2].dst : pth \in rows}
                 float == IF \A p \in products : "price" \in DOMAIN NodeOf(graph, p).props
                          THEN "ok" ELSE "error"
             IN \E orderArrival \in Perms(ids) :
                \E orders \in OrderDicts(graph, rows, OrderByDesc(ids, ts, orderArrival)) :
                   Serve(w, [NoResponse EXCEPT
                          !.endpoint = "orders",
                          !.arg = customer_id,
                          !.status = float,
                          !.body = orders])

\* ------------------------------------------------------ the service's runs

\* Most order_items rows of the sources the customer endpoints are queried over.
MaxBasket == 4

ShopOrderIds == {1, 2, 3}
ShopItemRows == [order_id : ShopOrderIds, product_id : QueryProdIds, quantity : {1}]

\* The order_items tables of at most MaxBasket rows, each (order, product)
\* at most once, in the order of the primary key.
RowRank(r) == (r.order_id - 1) * Cardinality(QueryProdIds) + r.product_id
Baskets ==
    {s \in SeqsUpTo(ShopItemRows, MaxBasket) :
        \A k \in 1..(Len(s) - 1) : RowRank(s[k]) < RowRank(s[k + 1])}

\* The sources behind the graphs the customer endpoints are queried over:
\* customer 1 with one order, customer 2 with two, customer 3 with none;
\* products 1 and 2 of one name in one category, product 3 of a name before
\* theirs in another category or in one that no row of categories has; any
\* basket.
PurchaseSnapshots ==
    {[categories |-> <<[id |-> 1, name |-> "Books"], [id |-> 2, name |-> "Toys"]>>,
      products |-> <<[id |-> 1, name |-> "Go Guide", price |-> "29.99", category_id |-> 1],
                     [id |-> 2, name |-> "Go Guide", price |-> "5.00", category_id |-> 1],
                     [id |-> 3, name |-> "Ada Intro", price |-> "5.00", category_id |-> cat3]>>,
      customers |-> <<[id |-> 1, name |-> "Ann", join_date |-> "date(2024,1,5)"],
                      [id |-> 2, name |-> "Ann", join_date |-> "date(2024,1,5)"],
                      [id |-> 3, name |-> "Ann", join_date |-> "date(2024,1,5)"]>>,
      orders |-> <<[id |-> 1, customer_id |-> 1, ts |-> "Timestamp(1)"],
                   [id |-> 2, customer_id |-> 2, ts |-> "Timestamp(2)"],
                   [id |-> 3, customer_id |-> 2, ts |-> "Timestamp(2)"]>>,
      order_items |-> items,
      events |-> <<>>] : items \in Baskets, cat3 \in {2, 3}}

\* A store in which another writer has created every CONTAINS relationship
\* a second time: the store keeps no relationship unique.
DoubledContains(g) ==
    [g EXCEPT !.rels = @ \cup {[r EXCEPT !.rid = @ + g.next] : r \in {x \in g.rels : x.type = "CONTAINS"}},
              !.next = @ + @]

\* The service over the graph a complete load has left; no ETL is running.
\* One request at a time over any of the graphs, or MaxWorkers requests at
\* a time over one graph.
InitService ==
    /\ \/ /\ db \in QuerySnapshots
          /\ graph = LoadFrom(EmptyGraph, db, 1, 1)
          /\ pool = 1
       \/ /\ db \in PurchaseSnapshots
          /\ graph \in {LoadFrom(EmptyGraph, db, 1, 1), DoubledContains(LoadFrom(EmptyGraph, db, 1, 1))}
          /\ pool = 1
       \/ /\ db = Baseline
          /\ graph = LoadFrom(EmptyGraph, db, 1, 1)
          /\ pool = MaxWorkers
    /\ queries = NoFile
    /\ max_retries = 1
    /\ runs = 1
    /\ prev = [complete |-> FALSE, graph |-> EmptyGraph]
    /\ pc = "done"
    /\ i = 0
    /\ attempts = [g \in Gates |-> 0]
    /\ sleeps = [g \in Gates |-> 0]
    /\ pg_conn = "none"
    /\ neo4j_driver = "none"
    /\ statements = <<>>
    /\ executed = <<>>
    /\ df = EmptyDf
    /\ loaded = NoneLoaded
    /\ log = <<>>
    /\ exc = "none"
    /\ ServiceStart

NextService ==
    \/ GetDriver
    \/ HealthCheck
    \/ GetStats
    \/ ListProducts
    \/ CustomerOrders
    \/ CollaborativeFiltering
    \/ ContentBased
    \/ PopularProducts
    \/ FrequentlyBoughtTogether
    \/ ShutdownEvent

SpecService == InitService /\ [][NextService]_vars

\* ----------------------------------------------------------- properties

Printed(m) == \E k \in 1..Len(log) : log[k].msg = m
LoadStarted == Printed("Loading")
Ended == pc \in {"finally", "done"}

\* At most one node per (label, id), one relationship per (type, from, to).
NoDuplicates(g) ==
    /\ \A a, b \in g.nodes : (a.label = b.label /\ a.id = b.id) => a = b
    /\ \A a, b \in g.rels : (a.type = b.type /\ a.src = b.src /\ a.dst = b.dst) => a = b

\* C1: a complete run of etl() on the source a complete run has just loaded
\* leaves the graph as that run left it: the same nodes and relationships
\* with the same attribute values, and none of them twice.
C1_Idempotent ==
    (pc = "done" /\ Completed /\ prev.complete) =>
        (graph = prev.graph /\ NoDuplicates(graph))

\* A second complete run over a source whose events table names the same
\* (customer, product, type) twice with different timestamps.
C1_Witness ==
    /\ pc = "done" /\ Completed /\ prev.complete /\ runs = 2
    /\ Len(db.events) = 2
    /\ db.events[1].ts # db.events[2].ts
    /\ Upper[db.events[1].event_type] = Upper[db.events[2].event_type]
    /\ \E r \in graph.rels : r.type = "VIEW"
    /\ \E r \in graph.rels : r.type = "CONTAINS"

\* C2: a row whose merge fails during the load stage is skipped and the run
\* goes on: every run that started loading goes through every load loop.
C2_RowFailureSkipped == (LoadStarted /\ Ended) => Completed

\* C3: when etl() has returned or raised after acquiring a connection,
\* neither the relational connection nor the graph driver is left open.
C3_ConnectionsReleased ==
    (pc = "done" /\ pg_conn # "none") => (pg_conn # "open" /\ neo4j_driver # "open")

\* C4: after a complete load run every Product node has exactly one outgoing
\* IN_CATEGORY relationship.
C4_OneCategoryPerProduct ==
    (pc = "done" /\ Completed) =>
        \A p \in NodesOf(graph, "Product") :
            Cardinality({r \in graph.rels : r.type = "IN_CATEGORY" /\ r.src = p.nid}) = 1

\* The first row of table t is being merged or has been merged.
Begun(t) == pc = LoadPc[t] \/ loaded[t] > 0
\* Every row of table t has been merged.
AllMerged(t) == loaded[t] = Len(df[t])

\* C5 as claimed: categories and customers before products, products and
\* customers before orders, orders and products before CONTAINS edges,
\* customers and products before interaction edges.
C5_LoadOrderClaimed ==
    /\ Begun("products") => (AllMerged("categories") /\ AllMerged("customers"))
    /\ Begun("orders") => (AllMerged("products") /\ AllMerged("customers"))
    /\ Begun("order_items") => (AllMerged("orders") /\ AllMerged("products"))
    /\ Begun("events") => (AllMerged("customers") /\ AllMerged("products"))

\* C5, amended: all Category rows are merged before the first Product row,
\* all Product and Customer rows before the first Order row, all Order and
\* Product rows before the first CONTAINS edge, all Customer and Product rows
\* before the first interaction edge. (Customer rows come after Product rows.)
C5_LoadOrder ==
    /\ Begun("products") => AllMerged("categories")
    /\ Begun("orders") => (AllMerged("products") /\ AllMerged("customers"))
    /\ Begun("order_items") => (AllMerged("orders") /\ AllMerged("products"))
    /\ Begun("events") => (AllMerged("customers") /\ AllMerged("products"))

\* The last loop is running and every table had rows to merge.
C5_Witness ==
    /\ pc = "load_events"
    /\ \A t \in DOMAIN loaded : Len(df[t]) > 0
    /\ \A t \in DOMAIN loaded \ {"events"} : loaded[t] = Len(df[t])
    /\ Len(df.products) = 2

GatePc == [postgres |-> "wait_for_postgres", neo4j |-> "wait_for_neo4j"]
GateRaises == [postgres |-> "PostgreSQL not available after max retries",
               neo4j |-> "Neo4j not available after max retries"]
\* The gate has returned True.
GatePassed(g) ==
    IF g = "postgres"
    THEN pc # "wait_for_postgres" /\ exc \notin {GateRaises["postgres"], "Error"}
    ELSE /\ pc \notin {"wait_for_postgres", "wait_for_neo4j"}
         /\ exc \notin {GateRaises["postgres"], "Error", GateRaises["neo4j"]}
\* Nothing of etl() past the gates has happened.
NothingOpened ==
    /\ pg_conn = "none" /\ neo4j_driver = "none"
    /\ executed = <<>> /\ df = EmptyDf /\ loaded = NoneLoaded
    /\ graph = prev.graph

\* C6: a gate makes at most max_retries attempts; while it loops every
\* attempt so far has failed and was followed by one sleep; it returns at its
\* first successful attempt, having slept once per failed attempt; when
\* attempt max_retries fails it raises without a further sleep, and etl()
\* ends with no connection opened and nothing set up, extracted or loaded.
C6_BoundedRetry ==
    \A g \in Gates :
        /\ attempts[g] <= max_retries
        /\ pc = GatePc[g] => (i < max_retries /\ attempts[g] = i /\ sleeps[g] = i)
        /\ GatePassed(g) => (attempts[g] >= 1 /\ sleeps[g] = attempts[g] - 1)
        /\ exc = GateRaises[g] =>
               /\ attempts[g] = max_retries
               /\ sleeps[g] = max_retries - 1
               /\ pc = "done"
               /\ NothingOpened

\* The relational gate passed at its last attempt and the graph gate failed
\* every attempt.
C6_Witness ==
    /\ max_retries = MaxRetries
    /\ exc = GateRaises["neo4j"]
    /\ attempts["postgres"] = MaxRetries
    /\ sleeps["neo4j"] = MaxRetries - 1

\* The row's statement finds one of its endpoints absent from the graph.
MissingEndpoint(t, row) ==
    IF t = "order_items"
    THEN Match(graph, "Order", row.order_id) = {} \/ Match(graph, "Product", row.product_id) = {}
    ELSE Match(graph, "Customer", row.customer_id) = {} \/ Match(graph, "Product", row.product_id) = {}

\* C7: an order-item or event row whose statement ran and found an endpoint
\* absent changes nothing in the graph, is reported as skipped in the run's
\* output, and the run goes on.
C7_MissingEndpointReported ==
    [][\A t \in {"order_items", "events"} :
          (/\ pc = LoadPc[t]
           /\ i <= Len(df[t])
           /\ MissingEndpoint(t, df[t][i])
           /\ loaded'[t] = loaded[t] + 1)
          => (/\ graph' = graph
              /\ pc' \in {LoadPc[u] : u \in DOMAIN LoadPc} \cup {"finally"}
              /\ exc' = "none"
              /\ \E k \in (Len(log) + 1)..Len(log') : log'[k].msg = "Skipped")]_vars

\* C8: every relationship from a Customer node to a Product node has a type
\* of the allow-list.
C8_AllowedTypes ==
    \A r \in graph.rels :
        (/\ \E c \in NodesOf(graph, "Customer") : c.nid = r.src
         /\ \E p \in NodesOf(graph, "Product") : p.nid = r.dst)
        => r.type \in AllowedRelTypes

Separators == {";", " "}
NonSeparators(s) == SelectSeq(s, LAMBDA c : c \notin Separators)
RECURSIVE Flat(_)
Flat(ss) == IF ss = <<>> THEN <<>> ELSE ss[1] \o Flat(Tail(ss))
\* The positions of the file that start a statement: a character that is no
\* separator, with only blanks before it in its piece.
StatementStarts(content) ==
    {k \in 1..Len(content) :
        /\ content[k] \notin Separators
        /\ \A j \in 1..(k - 1) : (\A h \in j..(k - 1) : content[h] # ";") => content[j] = " "}
IsPrefix(a, b) == Len(a) <= Len(b) /\ SubSeq(b, 1, Len(a)) = a
Occurs(stmt, content) ==
    \E k \in 1..Len(content) :
        k + Len(stmt) - 1 <= Len(content) /\ SubSeq(content, k, k + Len(stmt) - 1) = stmt
ReachedExtract == pc = "extract" \/ Printed("Extracting data from PostgreSQL...")
ExecutedText == Flat([k \in 1..Len(executed) |-> executed[k].stmt])

\* C9: the statements handed to the graph store are pieces of the file, none
\* blank, in file order, each once; a failed one leaves a warning and the
\* next one still runs; when etl() reaches extraction every statement of the
\* file has run, and without a file none has and the run has gone on.
C9_SchemaStatements ==
    /\ \A k \in 1..Len(executed) :
          /\ NonSeparators(executed[k].stmt) # <<>>
          /\ executed[k].stmt[1] # " " /\ executed[k].stmt[Len(executed[k].stmt)] # " "
          /\ Occurs(executed[k].stmt, queries.content)
    /\ IsPrefix(NonSeparators(ExecutedText), NonSeparators(queries.content))
    /\ Len(executed) <= Cardinality(StatementStarts(queries.content))
    /\ Cardinality({k \in 1..Len(log) : log[k].msg = "Warning executing statement"})
          = Cardinality({k \in 1..Len(executed) : ~executed[k].ok})
    /\ pc = "schema_statement" => (i <= Len(statements) /\ Len(executed) = i - 1)
    /\ (executed # <<>> /\ pc # "schema_statement") => ReachedExtract
    /\ ReachedExtract =>
          /\ Len(executed) = Cardinality(StatementStarts(queries.content))
          /\ NonSeparators(ExecutedText) = NonSeparators(queries.content)
          /\ ~queries.exists => Printed("queries.cypher not found, skipping schema setup")

\* Extraction is reached after a two-statement file whose first statement
\* failed and whose second ran.
C9_Witness ==
    /\ pc = "extract"
    /\ Len(executed) = 2
    /\ ~executed[1].ok /\ executed[2].ok
    /\ executed[1].stmt # executed[2].stmt

NonIncreasing(rows) ==
    \A k \in 1..(Len(rows) - 1) : rows[k].total_sold >= rows[k + 1].total_sold

\* C10: popular_products lists products by total quantity sold, largest
\* first, and for a fixed graph and limit every call the store answers
\* returns the same list.
C10_DeterministicRanking ==
    response.endpoint = "popular" /\ response.status = "ok" =>
        /\ NonIncreasing(response.recommendations)
        /\ \A prodArrival \in Perms(SoldProducts(graph)),
              catArrival \in Perms(Nids(NodesOf(graph, "Category"))) :
              response.recommendations =
                  PopularRows(graph,
                              Limit(OrderByDesc(SoldProducts(graph), TotalSold(graph), prodArrival),
                                    response.limit),
                              TotalSold(graph), catArrival)

\* popular_products lists products by total quantity sold, largest first.
PopularNonIncreasing == response.endpoint = "popular" => NonIncreasing(response.recommendations)

\* The relationships of one type between two sets of nodes, and the others
\* of the type.
Between(g, type, srcs, dsts) == {r \in g.rels : r.type = type /\ r.src \in srcs /\ r.dst \in dsts}
Apart(g, type, srcs, dsts) == {r \in g.rels : r.type = type /\ ~(r.src \in srcs /\ r.dst \in dsts)}

\* The step has left one relationship of the type per pair of the nodes, with
\* just the given attributes, and every other relationship of the type as it was.
Overwritten(type, srcs, dsts, props) ==
    /\ \A a \in srcs, b \in dsts :
          /\ Cardinality(Between(graph', type, {a}, {b})) = 1
          /\ \A r \in Between(graph', type, {a}, {b}) : r.props = props
    /\ Apart(graph', type, srcs, dsts) = Apart(graph, type, srcs, dsts)

\* At most one relationship per type and pair of nodes, the types being
\* CONTAINS and the interactions.
OnePerKey(g) ==
    \A a, b \in g.rels :
        (a.type \notin {"IN_CATEGORY", "PLACED"} /\ a.type = b.type /\ a.src = b.src /\ a.dst = b.dst)
            => a = b

\* C15: the graph holds at most one CONTAINS relationship per (order,
\* product) and one interaction per (customer, product, type); each row
\* processed sets the quantity, or the timestamp, of its relationship to the
\* value of the row, whatever the relationship held, and touches no other.
C15_LastWriteWins ==
    [][/\ OnePerKey(graph')
       /\ (pc = LoadPc["order_items"] /\ loaded'["order_items"] = loaded["order_items"] + 1) =>
              Overwritten("CONTAINS",
                          Nids(Match(graph, "Order", df["order_items"][i].order_id)),
                          Nids(Match(graph, "Product", df["order_items"][i].product_id)),
                          [quantity |-> df["order_items"][i].quantity])
       /\ (pc = LoadPc["events"] /\ loaded'["events"] = loaded["events"] + 1) =>
              Overwritten(Upper[df["events"][i].event_type],
                          Nids(Match(graph, "Customer", df["events"][i].customer_id)),
                          Nids(Match(graph, "Product", df["events"][i].product_id)),
                          [ts |-> CypherDatetime[IsoFormat[df["events"][i].ts]]])]_vars

\* A complete run over a source whose order_items table names the same
\* (order, product) twice with different quantities: the relationship holds
\* the quantity of the second row.
C15_Witness ==
    /\ pc = "done" /\ Completed
    /\ Len(db.order_items) = 2
    /\ db.order_items[1].order_id = db.order_items[2].order_id
    /\ db.order_items[1].product_id = db.order_items[2].product_id
    /\ db.order_items[1].quantity # db.order_items[2].quantity
    /\ \E r \in graph.rels : r.type = "CONTAINS" /\ r.props.quantity = db.order_items[2].quantity
    /\ \E r \in prev.graph.rels : r.type = "CONTAINS" /\ r.props.quantity # db.order_items[2].quantity

\* C17: after a complete run every Order node has exactly one PLACED
\* relationship coming in from a Customer node.
C17_OnePlacingCustomer ==
    (pc = "done" /\ Completed) =>
        \A o \in Nids(NodesOf(graph, "Order")) :
            Cardinality({r \in graph.rels : r.type = "PLACED" /\ r.dst = o /\ HasLabel(graph, r.src, "Customer")}) = 1

\* C20: a product whose row names another category than the one the run
\* before left it in has, after a complete run, one IN_CATEGORY relationship,
\* to the category of the row.
C20_CategoryReplaced ==
    (pc = "done" /\ Completed) =>
        \A k \in 1..Len(db.products) :
            \A p \in Nids(Match(graph, "Product", db.products[k].id)) :
                (\E r \in prev.graph.rels :
                    /\ r.type = "IN_CATEGORY" /\ r.src = p
                    /\ NodeOf(prev.graph, r.dst).id # db.products[k].category_id)
                => /\ Cardinality({r \in graph.rels : r.type = "IN_CATEGORY" /\ r.src = p}) = 1
                   /\ \A r \in graph.rels :
                         (r.type = "IN_CATEGORY" /\ r.src = p) => NodeOf(graph, r.dst).id = db.products[k].category_id

\* The product ids of a customer's or product's identifier, as nodes.
CustomerNodes(id) == Nids(Match(graph, "Customer", id))
ProductNodes(id) == Nids(Match(graph, "Product", id))
Recommended == {response.recommendations[k].product_id : k \in 1..Len(response.recommendations)}

\* C11: collaborative_filtering lists its recommendations by score, largest
\* first, and recommendations of equal score by product id, smallest first.
C11_TieBreakById ==
    response.endpoint = "collaborative" =>
        \A k \in 1..(Len(response.recommendations) - 1) :
            LET a == response.recommendations[k]
                b == response.recommendations[k + 1]
            IN a.score > b.score \/ (a.score = b.score /\ a.product_id <= b.product_id)

\* C12: the list frequently_bought_together returns for product X never
\* has X in it, also when the store holds two CONTAINS relationships from
\* an order to X.
C12_NeverItself ==
    response.endpoint = "together" => response.arg \notin Recommended

\* A non-empty list, returned for a product that an order contains through
\* two relationships.
C12_Witness ==
    /\ response.endpoint = "together"
    /\ response.status = "ok"
    /\ response.recommendations # <<>>
    /\ \E a, b \in graph.rels :
          /\ a # b /\ a.type = "CONTAINS" /\ b.type = "CONTAINS"
          /\ a.src = b.src /\ a.dst = b.dst /\ a.dst \in ProductNodes(response.arg)

\* The customer named by the request has a node and no order.
NoOrders ==
    /\ CustomerNodes(response.arg) # {}
    /\ \A c \in CustomerNodes(response.arg), r \in graph.rels : ~(r.type = "PLACED" /\ r.src = c)

\* The identifier of the request matches no node.
NoNode ==
    IF response.endpoint = "together" THEN ProductNodes(response.arg) = {}
    ELSE CustomerNodes(response.arg) = {}

\* C13 as claimed: for a customer without orders, and for an identifier no
\* node has, collaborative_filtering, content_based and
\* frequently_bought_together return an empty list and raise nothing.
C13_AbsenceNeverRaises ==
    (/\ response.endpoint \in {"collaborative", "content", "together"}
     /\ NoNode \/ (response.endpoint # "together" /\ NoOrders)) =>
        (response.status = "ok" /\ response.recommendations = <<>>)

\* C13: for a customer without orders, and for an identifier no node has,
\* collaborative_filtering, content_based and frequently_bought_together
\* return an empty list and raise nothing, unless the driver cannot be
\* created or the store does not answer the query: then the request ends
\* with that error, as any request does.
C13_AbsenceIsEmpty ==
    (/\ response.endpoint \in {"collaborative", "content", "together"}
     /\ response.status \notin StoreFailures
     /\ NoNode \/ (response.endpoint # "together" /\ NoOrders)) =>
        (response.status = "ok" /\ response.recommendations = <<>>)

\* content_based has answered for a customer without orders, in a store
\* where categories hold products and another customer has orders.
C13_Witness ==
    /\ response.endpoint = "content"
    /\ NoOrders
    /\ response.status = "ok"
    /\ \E r \in graph.rels : r.type = "IN_CATEGORY"
    /\ \E c \in Nids(NodesOf(graph, "Customer")) : Purchases(graph, c) # {}

\* C14: collaborative_filtering and content_based never return a product
\* the customer has purchased.
C14_NotPurchased ==
    response.endpoint \in {"collaborative", "content"} =>
        \A c \in CustomerNodes(response.arg) :
            \A p \in Purchased(graph, c) : NodeOf(graph, p).id \notin Recommended

\* collaborative_filtering has returned a product for a customer who has
\* purchased another.
C14_Witness ==
    /\ response.endpoint = "collaborative"
    /\ response.recommendations # <<>>
    /\ \E c \in CustomerNodes(response.arg) : Purchased(graph, c) # {}

\* C16: the service process creates at most one driver, every handler that
\* has got its driver has that one, and after shutdown every driver created
\* is closed.
C16_OneDriver ==
    /\ Len(drivers) <= 1
    /\ \A w \in 1..MaxWorkers : worker[w].pc = "query" => worker[w].driver = 1
    /\ stopped => \A k \in 1..Len(drivers) : drivers[k] = "closed"

\* The number of distinct products both customers purchased.
SharedProducts(g, c, other) == Cardinality(Purchased(g, c) \cap Purchased(g, other))

\* C18: the common_products by which collaborative_filtering keeps its
\* neighbours is the number of distinct products that the customer and the
\* neighbour both purchased.
C18_DistinctShared ==
    response.endpoint = "collaborative" =>
        \A n \in response.neighbors :
            \A c \in CustomerNodes(response.arg), o \in CustomerNodes(n.customer) :
                n.common_products = SharedProducts(graph, c, o)

\* C19: collaborative_filtering, popular_products and
\* frequently_bought_together return one entry for each of the
\* min(limit, candidates) products the ranking kept, in that order.
C19_OneEntryPerRanked ==
    response.endpoint \in {"collaborative", "popular", "together"} =>
        /\ Len(response.ranked) = Min(response.limit, response.candidates)
        /\ Len(response.recommendations) = Len(response.ranked)
        /\ \A k \in 1..Len(response.ranked) :
              response.recommendations[k].product_id = NodeOf(graph, response.ranked[k]).id

====
